---- MODULE Spec2Model ----
(***************************************************************************)
(* A model of the rvim editor (src/src/rvim/mod.rs): the character buffer, *)
(* the line index, the cursor, the viewport, the Normal/Insert mode flags  *)
(* and the interactive loop of Editor::start_interactive.                  *)
(*                                                                         *)
(* A state of the model is the editor at the head of `while !quit`         *)
(* (pc = "loop"), before start_interactive was called (pc = "init"), or    *)
(* after it ended: pc = "done" (clean quit), "error" (an Err was returned) *)
(* or "panicked" (an assertion, an index or an arithmetic check aborted    *)
(* the process).  One step from pc = "loop" is one iteration of the loop:  *)
(* rerender, read(), the match on the event.                               *)
(* Buffer indices are 0-based as in the source; data[i] of the source is   *)
(* data[i + 1] here.                                                       *)
(***************************************************************************)
EXTENDS Integers, Sequences, FiniteSets, TLC

VARIABLES
    data,             \* Editor.data: the characters of the buffer
    lines,            \* Editor.lines: the line index, records [begin, end]
    cursor,           \* Editor.cursor
    view_row,         \* Editor.view_row
    insert,           \* the local `insert` of start_interactive
    quit,             \* the local `quit` of start_interactive
    pc,               \* where the session is
    overflow_checks,  \* the build: TRUE when usize arithmetic is checked
    key,              \* what read() returned in the last iteration
    edits,            \* number of edits of the buffer so far
    save_calls,       \* the buffers save_to_file was called with during
                      \* the last step, in order
    file,             \* the bytes of the file at file_path
    term              \* the terminal: [echo, icanon, raw]

vars == <<data, lines, cursor, view_row, insert, quit, pc, overflow_checks,
          key, edits, save_calls, file, term>>

----------------------------------------------------------------------------
(* Bounds of the model. *)

\* longest initial content enumerated (besides the two scenarios)
MaxInitLen == 2
\* most edits (insertions and removals) of one session
MaxEdits == 2
\* the 'd' key is read while cursor <= len + MaxOverrun
MaxOverrun == 2
\* terminal sizes 1..MaxWidth x 1..MaxHeight
MaxWidth == 1
MaxHeight == 2

NL == "\n"

Alphabet == {"a", NL}

ScenarioA == <<"a", "b", NL, "c", "d">>
ScenarioB == <<"a", "b", NL, "c">>

SeqsUpTo(S, n) == UNION {[1..k -> S] : k \in 0..n}

\* a content with a character of more than one byte
NonAsciiContent == <<"é">>

InitContents == SeqsUpTo(Alphabet, MaxInitLen) \cup {NonAsciiContent}

\* the buffers of the spec's scenarios A and B
ScenarioContents == {ScenarioA, ScenarioB}

Widths == 1..MaxWidth
Heights == 1..MaxHeight

----------------------------------------------------------------------------
(* Key events: crossterm's Event, reduced to what the match arms look at. *)

\* the iteration did not get to read()
NoEvent == [code |-> "None", ch |-> "", mods |-> "NONE"]
EscEvent == [code |-> "Esc", ch |-> "", mods |-> "NONE"]
BackspaceEvent == [code |-> "Backspace", ch |-> "", mods |-> "NONE"]
\* any event no arm matches in either mode: Enter, arrows, resize, mouse, ...
OtherEvent == [code |-> "Other", ch |-> "", mods |-> "NONE"]
\* read() returned Err
ReadErr == [code |-> "Err", ch |-> "", mods |-> "NONE"]
CharEvent(c, m) == [code |-> "Char", ch |-> c, mods |-> m]

\* the characters typed in Normal mode: the six commands and one other key
NormalChars == {"q", "e", "s", "w", "a", "d", "x"}
\* the characters typed in Insert mode
TypedChars == {"q"}

NormalEvents ==
    {CharEvent(c, "NONE") : c \in NormalChars}
        \cup {EscEvent}

InsertEvents ==
    {CharEvent(c, "NONE") : c \in TypedChars}
        \cup {CharEvent("X", "SHIFT"), EscEvent, BackspaceEvent, OtherEvent}

----------------------------------------------------------------------------
(* usize arithmetic.  A value below zero stands for the wrapped value      *)
(* 2^64 + n of a build without overflow checks.                            *)

\* a - b on usize: [panic, val]
USub(a, b, oc) == [panic |-> (a < b) /\ oc, val |-> a - b]

\* a < b and a <= b on usize, wrapped values being the largest
ULt(a, b) ==
    IF a < 0 /\ b >= 0 THEN FALSE
    ELSE IF a >= 0 /\ b < 0 THEN TRUE
    ELSE a < b

ULe(a, b) == a = b \/ ULt(a, b)

\* `v as u16` of a usize
AsU16(v) == v % 65536

----------------------------------------------------------------------------
(* The buffer and the line index. *)

Line(begin, end) == [begin |-> begin, end |-> end]

\* Vec::insert(at, c): panics when at > len
VecInsert(d, at, c) == SubSeq(d, 1, at) \o <<c>> \o SubSeq(d, at + 1, Len(d))

\* Vec::remove(at): panics when at >= len
VecRemove(d, at) == SubSeq(d, 1, at) \o SubSeq(d, at + 2, Len(d))

\* the loop of recompute_size from 0-based index i on, with `begin` and the
\* lines pushed so far
RECURSIVE ScanLines(_, _, _, _)
ScanLines(d, i, begin, ls) ==
    IF i >= Len(d) THEN Append(ls, Line(begin, Len(d)))
    ELSE IF d[i + 1] = NL
         THEN ScanLines(d, i + 1, i + 1, Append(ls, Line(begin, i)))
         ELSE ScanLines(d, i + 1, begin, ls)

\* Editor::recompute_size: pushes onto self.lines as it is
recompute_size(d, ls) == ScanLines(d, 0, 0, ls)

\* Editor::insert_char: [panic, data, lines, cursor]
insert_char(d, ls, cur, c) ==
    IF cur > Len(d)
    THEN [panic |-> TRUE, data |-> d, lines |-> ls, cursor |-> cur]
    ELSE LET nd == VecInsert(d, cur, c)
         IN  [panic |-> FALSE, data |-> nd, lines |-> recompute_size(nd, ls),
              cursor |-> cur + 1]

\* Editor::remove_char: [panic, data, lines, cursor]
remove_char(d, ls, cur) ==
    IF cur > 0
    THEN IF cur >= Len(d)
         THEN [panic |-> TRUE, data |-> d, lines |-> ls, cursor |-> cur]
         ELSE LET nd == VecRemove(d, cur)
              IN  [panic |-> FALSE, data |-> nd,
                   lines |-> recompute_size(nd, ls), cursor |-> cur - 1]
    ELSE [panic |-> FALSE, data |-> d, lines |-> ls, cursor |-> cur]

Min(S) == CHOOSE x \in S : \A y \in S : x <= y

\* Editor::current_line: [panic, line]
current_line(d, ls, cur, oc) ==
    LET last == USub(Len(d), 1, oc)
        hits == {i \in 0..(Len(ls) - 1) :
                    ls[i + 1].begin <= cur /\ cur <= ls[i + 1].end}
    IN  IF last.panic \/ ~ULe(cur, last.val)
        THEN [panic |-> TRUE, line |-> 0]
        ELSE [panic |-> FALSE, line |-> IF hits = {} THEN 0 ELSE Min(hits)]

\* the 's' arm of start_interactive: [panic, cursor]
move_down(d, ls, cur, oc) ==
    LET cl == current_line(d, ls, cur, oc)
        line == cl.line
        column == USub(cur, ls[line + 1].begin, oc)
        target == ls[line + 2]
        moved == target.begin + column.val
    IN  IF cl.panic \/ column.panic THEN [panic |-> TRUE, cursor |-> cur]
        ELSE IF line < Len(ls) - 1
             THEN [panic |-> FALSE,
                   cursor |-> IF moved > target.end THEN target.end ELSE moved]
             ELSE [panic |-> FALSE, cursor |-> cur]

\* the 'w' arm of start_interactive: [panic, cursor]
move_up(d, ls, cur, oc) ==
    LET cl == current_line(d, ls, cur, oc)
        line == cl.line
        column == USub(cur, ls[line + 1].begin, oc)
        target == ls[line + 2]
        moved == target.begin + column.val
    IN  IF cl.panic \/ column.panic THEN [panic |-> TRUE, cursor |-> cur]
        ELSE IF line > 0
             THEN IF line + 1 >= Len(ls)
                  THEN [panic |-> TRUE, cursor |-> cur]
                  ELSE [panic |-> FALSE,
                        cursor |-> IF moved > target.end THEN target.end
                                   ELSE moved]
             ELSE [panic |-> FALSE, cursor |-> cur]

\* the 'a' arm of start_interactive: [panic, cursor]
move_left(d, cur, oc) ==
    [panic |-> FALSE, cursor |-> IF cur > 0 THEN cur - 1 ELSE cur]

\* the 'd' arm of start_interactive: [panic, cursor]
move_right(d, cur, oc) ==
    LET last == USub(Len(d), 1, oc)
    IN  IF last.panic THEN [panic |-> TRUE, cursor |-> cur]
        ELSE [panic |-> FALSE,
              cursor |-> IF ULt(cur, last.val) THEN cur + 1 ELSE cur]

----------------------------------------------------------------------------
(* The renderer. *)

Placeholder == <<"~">>

\* one row of the frame loop of rerender, for buffer line `row`:
\* [panic, text]
frame_row(d, ls, row, w) ==
    IF row < Len(ls)
    THEN LET begin == ls[row + 1].begin
             end == ls[row + 1].end
             line_size == IF end - begin > w THEN w ELSE end - begin
         IN  IF begin + line_size > Len(d)
             THEN [panic |-> TRUE, text |-> <<>>]
             ELSE [panic |-> FALSE,
                   text |-> SubSeq(d, begin + 1, begin + line_size)]
    ELSE [panic |-> FALSE, text |-> Placeholder]

\* the scroll step of rerender: the new view_row
scroll(cursor_column, cursor_row, vr, h) ==
    LET vr1 == IF cursor_column < vr THEN cursor_row ELSE vr
    IN  IF cursor_column >= vr1 + h THEN cursor_column - h + 1 ELSE vr1

\* Editor::rerender with size() = (w, h) and no I/O failure:
\* [panic, view_row, frame], the frame being the rows written and the
\* column and row given to MoveTo
rerender(d, ls, cur, vr, w, h, oc) ==
    LET cl == current_line(d, ls, cur, oc)
        cursor_column == cl.line
        row0 == USub(cur, ls[cursor_column + 1].begin, oc)
        cursor_row == row0.val
        nvr == scroll(cursor_column, cursor_row, vr, h)
        rows == [i \in 1..(h - 1) |-> frame_row(d, ls, nvr + i - 1, w)]
        screen_row == USub(cursor_column, nvr, oc)
    IN  IF cl.panic \/ row0.panic
        THEN [panic |-> TRUE, view_row |-> vr, frame |-> <<>>]
        ELSE IF (\E i \in 1..(h - 1) : rows[i].panic) \/ screen_row.panic
        THEN [panic |-> TRUE, view_row |-> nvr, frame |-> <<>>]
        ELSE [panic |-> FALSE, view_row |-> nvr,
              frame |-> [rows |-> [i \in 1..(h - 1) |-> rows[i].text],
                         col |-> AsU16(IF ULt(w, cursor_row) THEN w
                                       ELSE cursor_row),
                         row |-> AsU16(screen_row.val)]]

----------------------------------------------------------------------------
(* The terminal and the file. *)

TermCooked == [echo |-> TRUE, icanon |-> TRUE, raw |-> FALSE]
\* after tcsetattr with ECHO and ICANON cleared
TermNoEcho == [echo |-> FALSE, icanon |-> FALSE, raw |-> FALSE]
\* after enable_raw_mode
TermRaw == [echo |-> FALSE, icanon |-> FALSE, raw |-> TRUE]
\* after the tcsetattr of the exit path: the saved termios with ECHO set
TermExit == [echo |-> TRUE, icanon |-> FALSE, raw |-> FALSE]

\* char::to_string().as_bytes(): the UTF-8 bytes of a character
Utf8(c) ==
    CASE c = NL -> <<10>>
      [] c = "X" -> <<88>>
      [] c = "a" -> <<97>>
      [] c = "b" -> <<98>>
      [] c = "c" -> <<99>>
      [] c = "d" -> <<100>>
      [] c = "q" -> <<113>>
      [] c = "é" -> <<195, 169>>

\* the bytes of the characters of d, in order
RECURSIVE Utf8Bytes(_)
Utf8Bytes(d) ==
    IF d = <<>> THEN <<>> ELSE Utf8(Head(d)) \o Utf8Bytes(Tail(d))

\* str::chars of the bytes of a file that read_to_string accepted
RECURSIVE Chars(_)
Chars(bytes) ==
    IF bytes = <<>> THEN <<>>
    ELSE IF Head(bytes) < 128
    THEN <<CHOOSE c \in {NL, "X", "a", "b", "c", "d", "q"} :
               Utf8(c) = <<Head(bytes)>> >> \o Chars(Tail(bytes))
    ELSE <<CHOOSE c \in {"é"} : Utf8(c) = SubSeq(bytes, 1, 2)>>
             \o Chars(SubSeq(bytes, 3, Len(bytes)))

\* save_to_file with trailing-newline normalisation: a final '\n' is
\* written when the buffer does not end in one
save_to_file_EndsWithNewline(d) ==
    IF d # <<>> /\ d[Len(d)] = NL THEN Utf8Bytes(d)
    ELSE Utf8Bytes(d) \o Utf8(NL)

\* Editor::save_to_file returning Ok(()): the bytes the file then holds
save_to_file(d) == Utf8Bytes(d)

----------------------------------------------------------------------------
(* The session. *)

\* the state after construction and Editor::init(content), content being
\* the string read from the file at file_path
InitWith(contents) ==
    /\ file \in {Utf8Bytes(c) : c \in contents}
    /\ data = Chars(file)
    /\ lines = <<>>
    /\ cursor = 0
    /\ view_row = 0
    /\ insert = FALSE
    /\ quit = FALSE
    /\ pc = "init"
    /\ overflow_checks \in BOOLEAN
    /\ key = NoEvent
    /\ edits = 0
    /\ save_calls = <<>>
    /\ term = TermCooked

Init == InitWith(InitContents)

\* sessions on the buffers of scenarios A and B
InitScenarios == InitWith(ScenarioContents)

\* start_interactive up to the loop
Start ==
    /\ pc = "init"
    /\ save_calls' = <<>>
    /\ UNCHANGED <<data, cursor, view_row, insert, quit, overflow_checks,
                   key, edits, file>>
    /\ \/ \* Termios::from_fd, tcgetattr or tcsetattr fails
          /\ pc' = "error"
          /\ UNCHANGED <<lines, term>>
       \/ \* enable_raw_mode fails
          /\ pc' = "error"
          /\ term' = TermNoEcho
          /\ UNCHANGED lines
       \/ /\ pc' = "loop"
          /\ term' = TermRaw
          /\ lines' = recompute_size(data, lines)

\* the exit path: print, c_lflag |= ECHO, tcsetattr(0, 0, &termios)?
Exit ==
    /\ pc = "loop"
    /\ quit
    /\ \/ pc' = "done" /\ term' = TermExit
       \/ pc' = "error" /\ term' = term
    /\ save_calls' = <<>>
    /\ UNCHANGED <<data, lines, cursor, view_row, insert, quit,
                   overflow_checks, key, edits, file>>

\* an iteration begins
Iterate ==
    /\ pc = "loop"
    /\ ~quit
    /\ UNCHANGED overflow_checks

\* an execute, size or write of rerender returns Err
RenderError ==
    /\ Iterate
    /\ pc' = "error"
    /\ key' = NoEvent
    /\ save_calls' = <<>>
    /\ UNCHANGED <<data, lines, cursor, view_row, insert, quit, edits, file,
                   term>>

\* what rerender can do in the current state, over the sizes size() returns
Renders ==
    {rerender(data, lines, cursor, view_row, w, h, overflow_checks) :
        w \in Widths, h \in Heights}

\* rerender panics
RenderPanic ==
    /\ Iterate
    /\ \E vr \in {r.view_row : r \in {x \in Renders : x.panic}} :
           view_row' = vr
    /\ pc' = "panicked"
    /\ key' = NoEvent
    /\ save_calls' = <<>>
    /\ UNCHANGED <<data, lines, cursor, insert, quit, edits, file, term>>

\* rerender returns Ok(()) and read() returns ev (an event or ReadErr)
Read(ev) ==
    /\ Iterate
    /\ \E vr \in {r.view_row : r \in {x \in Renders : ~x.panic}} :
           view_row' = vr
    /\ key' = ev
    /\ term' = term

\* read() returns Err
ReadError ==
    /\ Read(ReadErr)
    /\ pc' = "error"
    /\ save_calls' = <<>>
    /\ UNCHANGED <<data, lines, cursor, insert, quit, edits, file>>

----------------
(* The two matches of the event loop, as functions of the event read. *)

\* insert_key with the Esc arm leaving Insert mode without saving and the
\* Backspace arm saving instead
insert_key_SaveInWrongArm(ev, d, ls, cur) ==
    IF ev.code = "Esc" /\ ev.mods = "NONE"
    THEN [panic |-> FALSE, data |-> d, lines |-> ls, cursor |-> cur,
          insert |-> FALSE, save |-> FALSE]
    ELSE IF ev.code = "Backspace" /\ ev.mods = "NONE"
    THEN LET r == remove_char(d, ls, cur)
         IN  [panic |-> r.panic, data |-> r.data, lines |-> r.lines,
              cursor |-> r.cursor, insert |-> TRUE, save |-> TRUE]
    ELSE IF ev.code = "Char" /\ ev.mods = "NONE"
    THEN LET r == insert_char(d, ls, cur, ev.ch)
         IN  [panic |-> r.panic, data |-> r.data, lines |-> r.lines,
              cursor |-> r.cursor, insert |-> TRUE, save |-> FALSE]
    ELSE [panic |-> FALSE, data |-> d, lines |-> ls, cursor |-> cur,
          insert |-> TRUE, save |-> FALSE]

\* the match of Insert mode:
\* [panic, data, lines, cursor, insert, save]
insert_key(ev, d, ls, cur) ==
    IF ev.code = "Esc" /\ ev.mods = "NONE"
    THEN [panic |-> FALSE, data |-> d, lines |-> ls, cursor |-> cur,
          insert |-> FALSE, save |-> TRUE]
    ELSE IF ev.code = "Backspace" /\ ev.mods = "NONE"
    THEN LET r == remove_char(d, ls, cur)
         IN  [panic |-> r.panic, data |-> r.data, lines |-> r.lines,
              cursor |-> r.cursor, insert |-> TRUE, save |-> FALSE]
    ELSE IF ev.code = "Char" /\ ev.mods = "NONE"
    THEN LET r == insert_char(d, ls, cur, ev.ch)
         IN  [panic |-> r.panic, data |-> r.data, lines |-> r.lines,
              cursor |-> r.cursor, insert |-> TRUE, save |-> FALSE]
    ELSE [panic |-> FALSE, data |-> d, lines |-> ls, cursor |-> cur,
          insert |-> TRUE, save |-> FALSE]

\* normal_key with the `_ => {}` arm of the characters doing what the 'a'
\* arm does
normal_key_OtherCharMovesLeft(ev, d, ls, cur, oc) ==
    LET stay == [panic |-> FALSE, cursor |-> cur, insert |-> FALSE,
                 quit |-> FALSE]
        moved(r) == [panic |-> r.panic, cursor |-> r.cursor,
                     insert |-> FALSE, quit |-> FALSE]
    IN  IF ev.code # "Char" THEN stay
        ELSE IF ev.ch = "q" THEN [stay EXCEPT !.quit = TRUE]
        ELSE IF ev.ch = "e" THEN [stay EXCEPT !.insert = TRUE]
        ELSE IF ev.ch = "s" THEN moved(move_down(d, ls, cur, oc))
        ELSE IF ev.ch = "w" THEN moved(move_up(d, ls, cur, oc))
        ELSE IF ev.ch = "d" THEN moved(move_right(d, cur, oc))
        ELSE moved(move_left(d, cur, oc))

\* the match of Normal mode: [panic, cursor, insert, quit]
normal_key(ev, d, ls, cur, oc) ==
    LET stay == [panic |-> FALSE, cursor |-> cur, insert |-> FALSE,
                 quit |-> FALSE]
        moved(r) == [panic |-> r.panic, cursor |-> r.cursor,
                     insert |-> FALSE, quit |-> FALSE]
    IN  IF ev.code # "Char" THEN stay
        ELSE IF ev.ch = "q" THEN [stay EXCEPT !.quit = TRUE]
        ELSE IF ev.ch = "e" THEN [stay EXCEPT !.insert = TRUE]
        ELSE IF ev.ch = "s" THEN moved(move_down(d, ls, cur, oc))
        ELSE IF ev.ch = "w" THEN moved(move_up(d, ls, cur, oc))
        ELSE IF ev.ch = "a" THEN moved(move_left(d, cur, oc))
        ELSE IF ev.ch = "d" THEN moved(move_right(d, cur, oc))
        ELSE stay

IsChar(ev, c) == ev.code = "Char" /\ ev.ch = c

\* an iteration in Normal mode in which read() returns the event ev
NormalStep(ev) ==
    /\ ~insert
    /\ Read(ev)
    /\ IsChar(ev, "d") => cursor <= Len(data) + MaxOverrun
    /\ LET r == normal_key(ev, data, lines, cursor, overflow_checks)
       IN  /\ cursor' = r.cursor
           /\ insert' = r.insert
           /\ quit' = r.quit
           /\ pc' = IF r.panic THEN "panicked" ELSE "loop"
    /\ save_calls' = <<>>
    /\ UNCHANGED <<data, lines, edits, file>>

\* an iteration in Insert mode in which read() returns the event ev
InsertStep(ev) ==
    /\ insert
    /\ Read(ev)
    /\ LET r == insert_key(ev, data, lines, cursor)
       IN  /\ r.lines # lines => edits < MaxEdits
           /\ edits' = IF r.lines # lines THEN edits + 1 ELSE edits
           /\ data' = r.data
           /\ lines' = r.lines
           /\ cursor' = r.cursor
           /\ insert' = r.insert
           /\ quit' = quit
           /\ save_calls' = IF r.save /\ ~r.panic THEN <<r.data>> ELSE <<>>
           /\ IF r.panic THEN pc' = "panicked" /\ file' = file
              ELSE IF r.save
              THEN \* save_to_file(file_path)?
                   \/ pc' = "loop" /\ file' = save_to_file(r.data)
                   \/ \* File::create fails
                      pc' = "error" /\ file' = file
                   \/ \* File::create truncated the file, the flush fails
                      pc' = "error" /\ file' = <<>>
              ELSE pc' = "loop" /\ file' = file

KeyQuit == \E ev \in NormalEvents : IsChar(ev, "q") /\ NormalStep(ev)

KeyEnterInsert == \E ev \in NormalEvents : IsChar(ev, "e") /\ NormalStep(ev)

KeyMoveDown == \E ev \in NormalEvents : IsChar(ev, "s") /\ NormalStep(ev)

KeyMoveUp == \E ev \in NormalEvents : IsChar(ev, "w") /\ NormalStep(ev)

KeyMoveLeft == \E ev \in NormalEvents : IsChar(ev, "a") /\ NormalStep(ev)

KeyMoveRight == \E ev \in NormalEvents : IsChar(ev, "d") /\ NormalStep(ev)

KeyNormalIgnored ==
    \E ev \in NormalEvents :
        /\ ev.code # "Char" \/ ev.ch \notin {"q", "e", "s", "w", "a", "d"}
        /\ NormalStep(ev)

KeyEsc == \E ev \in InsertEvents : ev = EscEvent /\ InsertStep(ev)

KeyBackspace ==
    \E ev \in InsertEvents : ev = BackspaceEvent /\ InsertStep(ev)

KeyChar ==
    \E ev \in InsertEvents :
        ev.code = "Char" /\ ev.mods = "NONE" /\ InsertStep(ev)

KeyInsertIgnored ==
    \E ev \in InsertEvents :
        /\ ev \notin {EscEvent, BackspaceEvent}
        /\ ~(ev.code = "Char" /\ ev.mods = "NONE")
        /\ InsertStep(ev)

Next ==
    \/ Start
    \/ Exit
    \/ RenderError
    \/ RenderPanic
    \/ ReadError
    \/ KeyQuit
    \/ KeyEnterInsert
    \/ KeyMoveDown
    \/ KeyMoveUp
    \/ KeyMoveLeft
    \/ KeyMoveRight
    \/ KeyNormalIgnored
    \/ KeyEsc
    \/ KeyBackspace
    \/ KeyChar
    \/ KeyInsertIgnored

Spec == Init /\ [][Next]_vars

SpecScenarios == InitScenarios /\ [][Next]_vars

----------------------------------------------------------------------------
(* Notions the properties are stated with. *)

\* the 0-based indices of the newlines of d
NewlineIndices(d) == {i \in 0..(Len(d) - 1) : d[i + 1] = NL}

\* ls is the split of d on '\n'
IsSplitOf(ls, d) ==
    /\ Len(ls) = Cardinality(NewlineIndices(d)) + 1
    /\ ls[1].begin = 0
    /\ ls[Len(ls)].end = Len(d)
    /\ \A i \in 1..Len(ls) : ls[i].begin <= ls[i].end
    /\ \A i \in 1..(Len(ls) - 1) :
           /\ ls[i].end \in NewlineIndices(d)
           /\ ls[i + 1].begin = ls[i].end + 1

\* the split of d on '\n'
SplitLines(d) ==
    LET nls == NewlineIndices(d)
        n == Cardinality(nls)
        nth(k) == CHOOSE p \in nls : Cardinality({q \in nls : q < p}) = k - 1
    IN  [i \in 1..(n + 1) |->
            Line(IF i = 1 THEN 0 ELSE nth(i - 1) + 1,
                 IF i = n + 1 THEN Len(d) ELSE nth(i))]

\* the 0-based number of the line of the split of d that holds index cur
LineOf(d, cur) ==
    CHOOSE i \in 0..(Len(SplitLines(d)) - 1) :
        SplitLines(d)[i + 1].begin <= cur /\ cur <= SplitLines(d)[i + 1].end

ColumnOf(d, cur) == cur - SplitLines(d)[LineOf(d, cur) + 1].begin

\* the cursor at column col of line l of d, clamped to the end of the line
ClampTo(d, l, col) ==
    LET span == SplitLines(d)[l + 1]
    IN  IF span.begin + col > span.end THEN span.end ELSE span.begin + col

\* this step is an iteration in which read() returns an event
KeyStep == pc = "loop" /\ ~quit /\ key' \notin {NoEvent, ReadErr}

\* the next rerender returns, for some size of the terminal
CanRender == \E r \in Renders : ~r.panic

----------------------------------------------------------------------------
(* C1: after the initial rebuild and any insertions and Backspaces, the    *)
(* line index is the split of the buffer on '\n': newlines + 1 spans, the  *)
(* first beginning at 0, each next beginning one past the newline that     *)
(* ends the one before, the last ending at len.                            *)
C1_LinesAreSplitOfBuffer ==
    pc \in {"loop", "done"} => IsSplitOf(lines, data)

(* C2: in every state reachable by key events the cursor is a position of  *)
(* the buffer, 0 <= cursor <= len.                                         *)
C2_CursorInBuffer == 0 <= cursor /\ cursor <= Len(data)

(* C3: no step aborts the session: the assertion of current_line holds at  *)
(* every call and every index into the buffer and the line index is in     *)
(* range.                                                                  *)
C3_NeverAborts == pc # "panicked"

\* the events of the properties below, as read by the step
EscReadInInsert == KeyStep /\ insert /\ key' = EscEvent
BackspaceReadInInsert == KeyStep /\ insert /\ key' = BackspaceEvent
CharReadInInsert == KeyStep /\ insert /\ key'.code = "Char"
ReadInNormal(c) == KeyStep /\ ~insert /\ IsChar(key', c)

(* C4: save_to_file is called exactly once by a step that reads Escape in  *)
(* Insert mode, with the buffer as it is then, and by no other step: not   *)
(* by a key of Normal mode (q, Escape), an insertion or a Backspace.       *)
C4_SaveExactlyOnEscape ==
    [][IF EscReadInInsert
       THEN save_calls' = <<data>> /\ data' = data
       ELSE save_calls' = <<>>]_vars

\* an Escape in Insert mode after an edit was saved
C4_Witness ==
    /\ pc = "loop"
    /\ key = EscEvent
    /\ edits > 0
    /\ save_calls = <<data>>
    /\ file = save_to_file(data)

(* C5: the mode starts Normal; e in Normal enters Insert, Escape in Insert *)
(* returns to Normal, nothing else changes the mode; the session ends only *)
(* on q read in Normal mode; a q read in Insert mode is inserted as text   *)
(* and the session goes on; after the quit no event is read.               *)
C5_ModeMachineAndQuit ==
    /\ ~insert
    /\ [][/\ insert' = IF ReadInNormal("e") THEN TRUE
                       ELSE IF EscReadInInsert THEN FALSE
                       ELSE insert
          /\ KeyStep /\ (quit' \/ pc' = "panicked") => ReadInNormal("q")
          /\ pc' = "done" => quit
          /\ KeyStep /\ insert /\ key' = CharEvent("q", "NONE") =>
                /\ cursor <= Len(data)
                /\ data' = VecInsert(data, cursor, "q")
                /\ ~quit'
                /\ pc' = "loop"
          /\ quit => key' = key]_vars

(* C6: Backspace in Insert mode with cursor > 0 removes the character at   *)
(* index cursor - 1, keeps the others in order and decrements the cursor;  *)
(* with cursor = 0 it changes nothing.                                     *)
C6_BackspaceRemovesBeforeCursor ==
    [][BackspaceReadInInsert =>
          IF cursor > 0
          THEN /\ cursor <= Len(data)
               /\ data' = VecRemove(data, cursor - 1)
               /\ cursor' = cursor - 1
          ELSE data' = data /\ cursor' = cursor]_vars

(* C7: a character inserted in Insert mode and a Backspace right after it  *)
(* give back the buffer and the cursor of before the insertion.  In a      *)
(* state of Insert mode whose last event is the character key c, c sits at *)
(* index cursor - 1 and the buffer before the insertion is the buffer      *)
(* without it.                                                             *)
C7_InsertThenBackspaceRestores ==
    [][(/\ pc = "loop"
        /\ insert
        /\ key \in {CharEvent(c, "NONE") : c \in TypedChars}
        /\ BackspaceReadInInsert)
          => /\ 0 < cursor /\ cursor <= Len(data)
             /\ data' = VecRemove(data, cursor - 1)
             /\ cursor' = cursor - 1]_vars

(* C8: in Insert mode every character key event, whatever its modifiers,   *)
(* inserts its character at the cursor index and advances the cursor by 1. *)
C8_CharKeyInserts ==
    [][CharReadInInsert =>
          /\ cursor <= Len(data)
          /\ data' = VecInsert(data, cursor, key'.ch)
          /\ cursor' = cursor + 1]_vars

(* C9: s in Normal mode from line L, column C leaves the cursor where it   *)
(* is when L is the last line and else puts it at                          *)
(* min(lines[L+1].begin + C, lines[L+1].end), and the editor keeps         *)
(* accepting keys.                                                         *)
C9_MoveDown ==
    [][ReadInNormal("s") /\ cursor <= Len(data) =>
          /\ cursor' = IF LineOf(data, cursor) = Len(SplitLines(data)) - 1
                       THEN cursor
                       ELSE ClampTo(data, LineOf(data, cursor) + 1,
                                    ColumnOf(data, cursor))
          /\ pc' = "loop"
          /\ CanRender']_vars

(* C10: w in Normal mode from line L, column C leaves the cursor where it  *)
(* is when L = 0 and else puts it at min(lines[L-1].begin + C,             *)
(* lines[L-1].end).                                                        *)
C10_MoveUp ==
    [][ReadInNormal("w") /\ cursor <= Len(data) =>
          cursor' = IF LineOf(data, cursor) = 0
                    THEN cursor
                    ELSE ClampTo(data, LineOf(data, cursor) - 1,
                                 ColumnOf(data, cursor))]_vars

(* C11: in Normal mode a decrements the cursor when cursor > 0 and leaves  *)
(* it at 0; d increments the cursor whenever cursor < len, so that the     *)
(* position len is reached, and leaves it when cursor = len.               *)
C11_HorizontalMoves ==
    [][/\ ReadInNormal("a") =>
              cursor' = IF cursor > 0 THEN cursor - 1 ELSE cursor
       /\ ReadInNormal("d") =>
              cursor' = IF cursor < Len(data) THEN cursor + 1 ELSE cursor]_vars

(* C12: with an empty file loaded the session starts and runs: the line   *)
(* index is the one span {0,0}, the cursor is 0, and Move-left,            *)
(* Move-right, Move-up and Move-down leave the cursor at 0 and abort       *)
(* nothing.  Stated for the sessions whose buffer is empty and unedited.   *)
C12_EmptyFile ==
    (Len(data) = 0 /\ edits = 0) =>
        /\ pc # "panicked"
        /\ cursor = 0
        /\ pc = "loop" => lines = <<Line(0, 0)>>

(* C13: whenever start_interactive has returned, by the clean quit or by  *)
(* an Err of the setup, a render, a key read or the save on Escape, the    *)
(* terminal is back in the configuration it had before the call: not raw,  *)
(* echoing, canonical.                                                     *)
C13_TerminalRestored ==
    pc \in {"done", "error"} => term = TermCooked

----------------------------------------------------------------------------
(* The next render, as seen from the head of the loop. *)

\* the editor is about to call rerender
AtRender == pc = "loop" /\ ~quit

\* `let cursor_column = self.current_line()` of the next rerender
CursorColumn == current_line(data, lines, cursor, overflow_checks)

\* the scroll step of the next rerender with size() = (_, h): the view_row
\* it leaves
ScrollStep(h) ==
    scroll(CursorColumn.line,
           cursor - lines[CursorColumn.line + 1].begin, view_row, h)

\* the next rerender reaches its scroll step and the cursor is a position
\* of the buffer
ScrollsInBuffer == AtRender /\ ~CursorColumn.panic /\ cursor <= Len(data)

(* C14: after the scroll step of every render, whatever keys came before   *)
(* and whatever the height of the terminal, the line of the cursor is      *)
(* inside the window: top_line <= line_of(cursor) <= top_line + height - 1.*)
C14_CursorLineInWindow ==
    ScrollsInBuffer =>
        \A h \in Heights :
            /\ ScrollStep(h) <= LineOf(data, cursor)
            /\ LineOf(data, cursor) <= ScrollStep(h) + h - 1

(* C15: the scroll step moves top_line no more than needed: to the line of *)
(* the cursor when that line is above the window, to line - height + 1     *)
(* when it is at or below top_line + height, and not at all when it is in  *)
(* the window.                                                             *)
C15_ScrollIsMinimal ==
    ScrollsInBuffer =>
        \A h \in Heights :
            ScrollStep(h) =
                IF LineOf(data, cursor) < view_row
                THEN LineOf(data, cursor)
                ELSE IF LineOf(data, cursor) >= view_row + h
                THEN LineOf(data, cursor) - h + 1
                ELSE view_row

\* the 0-based numbers of the lines of the index ls whose span holds cur
LinesHolding(ls, cur) ==
    {i \in 0..(Len(ls) - 1) : ls[i + 1].begin <= cur /\ cur <= ls[i + 1].end}

(* C16: in every state the editor reaches, for every cursor with           *)
(* 0 <= cursor <= len, current_line returns a line number whose span holds *)
(* the cursor, and that line is the only one of the index that does; it    *)
(* does not fall back to 0 for a cursor line 0 does not hold.              *)
C16_CurrentLineIsTheLine ==
    pc = "loop" =>
        \A c \in 0..Len(data) :
            LET cl == current_line(data, lines, c, overflow_checks)
            IN  /\ ~cl.panic
                /\ LinesHolding(lines, c) = {cl.line}

\* what row `row` of the buffer d shows on a terminal w wide: the line
\* truncated to w, the placeholder when d has no such line
ShownLine(d, row, w) ==
    IF row < Len(SplitLines(d))
    THEN LET span == SplitLines(d)[row + 1]
             size == IF span.end - span.begin > w THEN w
                     ELSE span.end - span.begin
         IN  SubSeq(d, span.begin + 1, span.begin + size)
    ELSE Placeholder

(* C17: a rendered frame has height - 1 rows; row i shows line             *)
(* top_line + i of the buffer truncated to the width when the buffer has   *)
(* that line (its number is below newlines + 1) and '~' otherwise, so no   *)
(* row shows text of a line the buffer does not have.                      *)
C17_FrameShowsBufferLines ==
    AtRender =>
        \A w \in Widths, h \in Heights :
            LET r == rerender(data, lines, cursor, view_row, w, h,
                              overflow_checks)
            IN  ~r.panic =>
                    /\ Len(r.frame.rows) = h - 1
                    /\ \A i \in 1..(h - 1) :
                           r.frame.rows[i] =
                               ShownLine(data, r.view_row + i - 1, w)

\* the key of Normal mode read by this step is none of the six commands
IgnoredReadInNormal ==
    /\ KeyStep
    /\ ~insert
    /\ ~(key'.code = "Char" /\ key'.ch \in {"q", "e", "a", "d", "w", "s"})

\* the event of Insert mode read by this step is neither Escape, Backspace
\* nor a character key
IgnoredReadInInsert ==
    KeyStep /\ insert /\ key'.code \notin {"Esc", "Backspace", "Char"}

\* the step leaves the buffer, the line index, the cursor and the mode as
\* they are and the session goes on
ChangesNothing ==
    /\ UNCHANGED <<data, lines, cursor, insert, quit, file>>
    /\ pc' = "loop"

(* C18: in Normal mode no key event changes the buffer or the line index,  *)
(* and a key that is none of q, e, a, d, w, s changes nothing: buffer,     *)
(* cursor, mode; in Insert mode an event that is neither Escape, Backspace *)
(* nor a character key changes nothing.                                    *)
C18_IgnoredEventsChangeNothing ==
    [][/\ KeyStep /\ ~insert => UNCHANGED <<data, lines>>
       /\ IgnoredReadInNormal => ChangesNothing
       /\ IgnoredReadInInsert => ChangesNothing]_vars

\* an ignored character was read in Normal mode with the cursor inside an
\* edited buffer
C18_Witness ==
    /\ pc = "loop"
    /\ ~insert
    /\ key = CharEvent("x", "NONE")
    /\ cursor > 0
    /\ edits > 0

\* the editor waits for a key in Normal mode, or has quit cleanly
WaitsInNormalOrDone == (pc = "loop" /\ ~insert) \/ pc = "done"

(* C19: no edit is lost at a clean quit.  The buffer being initialised     *)
(* from the file, whenever the editor waits for a key in Normal mode, and  *)
(* so at every clean quit, the bytes of the file are those of the          *)
(* characters of the buffer, in order, with nothing added or translated.   *)
C19_FileIsBufferInNormalMode ==
    WaitsInNormalOrDone => file = Utf8Bytes(data) /\ Chars(file) = data

\* a clean quit after an edit of a buffer with a character of two bytes
C19_Witness ==
    /\ pc = "done"
    /\ edits > 0
    /\ Len(file) > Len(data)
    /\ file = Utf8Bytes(data)

(* C20: the terminal cursor is placed on the drawn row that shows the     *)
(* line of the cursor: at every render the row cursor_column - view_row    *)
(* given to MoveTo is computed without going below zero and is below       *)
(* height - 1, the number of rows the frame draws, and the column given to *)
(* MoveTo is min(column, width).                                           *)
C20_CursorOnDrawnRow ==
    ScrollsInBuffer =>
        \A w \in Widths, h \in Heights :
            LET r == rerender(data, lines, cursor, view_row, w, h,
                              overflow_checks)
            IN  /\ ScrollStep(h) <= CursorColumn.line
                /\ CursorColumn.line - ScrollStep(h) < h - 1
                /\ ~r.panic =>
                       r.frame.col = IF ColumnOf(data, cursor) > w THEN w
                                     ELSE ColumnOf(data, cursor)

====
